---- MODULE Spec2Model ----
(***************************************************************************)
(* Model of packages/fiber/src/core/loop.ts: the global effect registry    *)
(* (createSubs, addEffect, addAfterEffect, addTail, run), the per-root     *)
(* update pass (update) and the frame driver built by createLoop (loop,    *)
(* invalidate, advance).                                                   *)
(*                                                                         *)
(* JavaScript is single threaded: every exported function runs to          *)
(* completion, so each one is one atomic action.  Variables of the source  *)
(* that are always written before they are read inside one call (repeat,   *)
(* frame, state, i, subscribers, subscription) are LET-bound values of the *)
(* action; the final value of repeat is recorded in op.repeat.             *)
(*                                                                         *)
(* Loop, Invalidate and Advance are the functions run with callbacks that  *)
(* call nothing back.  LoopCb and AdvanceCb are the same functions run     *)
(* with callbacks that unregister an effect, throw, or call invalidate or  *)
(* advance; there the module-level i and subscribers (loop.ts:13, 40) are  *)
(* shared by the nested iterations, as they are in the source.             *)
(***************************************************************************)
EXTENDS Integers, Sequences, FiniteSets, TLC

VARIABLES
    roots,               \* the Map<TCanvas, Root> given to createLoop: its keys in insertion order
    rs,                  \* root.store.getState() of every root id
    init,                \* let init = true            (loop.ts:63)
    running,             \* let running = false        (loop.ts:64)
    raf,                 \* host: handles of requestAnimationFrame calls not yet fired or cancelled
    globalEffects,       \* loop.ts:14
    globalAfterEffects,  \* loop.ts:15
    globalTailEffects,   \* loop.ts:16
    handles,             \* the unregister closures returned by createSubs so far
    calls,               \* observation: the callbacks invoked by the last operation, in order
    op,                  \* observation: the last operation and its arguments
    used,                \* observation: the unregister closures invoked at least once
    tally,               \* observation (SpecDemand): ticks that processed root "a", tail runs
    body                 \* client code: what each callback does when it is invoked

vars == <<roots, rs, init, running, raf, globalEffects, globalAfterEffects,
          globalTailEffects, handles, calls, op, used, tally, body>>

driverVars == <<roots, rs, init, running, raf>>
effectVars == <<globalEffects, globalAfterEffects, globalTailEffects, handles, used>>

-----------------------------------------------------------------------------
(* Bounds and input sets *)

\* invalidate never raises a counter above 60 (loop.ts:136)
MaxFrames == 60

\* Counters are explored in the windows [-MaxNeg, LowFrames] and
\* [MaxFrames - LowFrames, MaxFrames]; the code does not branch on the values between.
LowFrames == 2
MaxNeg == 1

RootIds == {"a", "b"}
NoRoot == "none"
Frameloops == {"always", "demand", "never"}
\* Timestamps handed to loop and advance
Timestamps == {0, 1}

\* frameCount arguments of invalidate: negative, zero, above the default, above the clamp
\* (the default 1 is what the call without a state hands on)
FrameCounts == {-1, 0, 2, 61}

\* Global render callbacks that client code registers; every registration uses a fresh closure.
Callbacks == {"P", "Q", "T", "X"}
Phases == {"before", "after", "tail"}

Max(x, y) == IF x >= y THEN x ELSE y
Min(x, y) == IF x <= y THEN x ELSE y

-----------------------------------------------------------------------------
(* Observations *)

Call(kind, who, root) == [kind |-> kind, who |-> who, root |-> root]

NoHandle == [phase |-> "none", index |-> 0, cb |-> "none"]

Op(name, root, n, rge, repeat, h) ==
    [name |-> name, root |-> root, n |-> n, rge |-> rge, repeat |-> repeat, h |-> h]

-----------------------------------------------------------------------------
(* Effect registry: loop.ts:7-38 *)

EffectList(phase) ==
    CASE phase = "before" -> globalEffects
      [] phase = "after"  -> globalAfterEffects
      [] phase = "tail"   -> globalTailEffects

\* const index = subs.length; subs.push(callback); the closure keeps index
CreateSubs(callback, subs, phase) ==
    [subs   |-> Append(subs, callback),
     handle |-> [phase |-> phase, index |-> Len(subs), cb |-> callback]]

\* subs.splice(index, 1): removes whatever is at position index now (0-based),
\* nothing when index is past the end
Splice(subs, index) ==
    IF index < Len(subs)
    THEN SubSeq(subs, 1, index) \o SubSeq(subs, index + 2, Len(subs))
    ELSE subs

\* for (i = 0; i < effects.length; i++) effects[i](timestamp)
Run(effects, timestamp) ==
    [k \in 1..Len(effects) |-> Call("effect", effects[k], NoRoot)]

\* A closure is registered at most once: client code passes a fresh function.
Fresh(callback) == \A h \in handles : h.cb # callback

AddEffect(callback) ==
    /\ Fresh(callback)
    /\ LET c == CreateSubs(callback, globalEffects, "before")
       IN  /\ globalEffects' = c.subs
           /\ handles' = handles \cup {c.handle}
           /\ op' = Op("addEffect", NoRoot, 0, FALSE, 0, c.handle)
    /\ calls' = <<>>
    /\ UNCHANGED <<globalAfterEffects, globalTailEffects>>
    /\ UNCHANGED used
    /\ UNCHANGED driverVars

AddAfterEffect(callback) ==
    /\ Fresh(callback)
    /\ LET c == CreateSubs(callback, globalAfterEffects, "after")
       IN  /\ globalAfterEffects' = c.subs
           /\ handles' = handles \cup {c.handle}
           /\ op' = Op("addAfterEffect", NoRoot, 0, FALSE, 0, c.handle)
    /\ calls' = <<>>
    /\ UNCHANGED <<globalEffects, globalTailEffects>>
    /\ UNCHANGED used
    /\ UNCHANGED driverVars

AddTail(callback) ==
    /\ Fresh(callback)
    /\ LET c == CreateSubs(callback, globalTailEffects, "tail")
       IN  /\ globalTailEffects' = c.subs
           /\ handles' = handles \cup {c.handle}
           /\ op' = Op("addTail", NoRoot, 0, FALSE, 0, c.handle)
    /\ calls' = <<>>
    /\ UNCHANGED <<globalEffects, globalAfterEffects>>
    /\ UNCHANGED used
    /\ UNCHANGED driverVars

\* Client code invokes an unregister closure: () => void subs.splice(index, 1)
Unsub(h) ==
    /\ h \in handles
    /\ globalEffects' =
         IF h.phase = "before" THEN Splice(globalEffects, h.index) ELSE globalEffects
    /\ globalAfterEffects' =
         IF h.phase = "after" THEN Splice(globalAfterEffects, h.index) ELSE globalAfterEffects
    /\ globalTailEffects' =
         IF h.phase = "tail" THEN Splice(globalTailEffects, h.index) ELSE globalTailEffects
    /\ op' = Op("unsub", NoRoot, 0, FALSE, 0, h)
    /\ calls' = <<>>
    /\ used' = used \cup {h}
    /\ UNCHANGED handles
    /\ UNCHANGED driverVars

-----------------------------------------------------------------------------
(* Root state (RootState of ./store, as far as loop.ts reads and writes it) *)

Renders == {"auto", "manual"}

\* Configurations a root is created with: every frameloop mode, active or not, presenting
\* in XR or not (an inactive root is not presenting), rendering 'auto'; and rendering
\* 'manual' for the roots the driver can process.
RootConfigs ==
    {c \in [frameloop : Frameloops, active : BOOLEAN, presenting : BOOLEAN, render : Renders] :
        /\ ~(c.presenting /\ ~c.active)
        /\ c.render = "manual" => (c.active /\ ~c.presenting /\ c.frameloop # "never")}

\* The state of a freshly created store: no pending frames, empty stages, clock at 0.
NewRootState(frameloop, active, presenting, render, subscribers) ==
    [frameloop   |-> frameloop,      \* state.frameloop
     active      |-> active,         \* state.internal.active
     presenting  |-> presenting,     \* state.gl.xr?.isPresenting
     render      |-> render,         \* state.render
     frames      |-> 0,              \* state.internal.frames
     subscribers |-> subscribers,    \* state.internal.subscribers (useFrame callbacks)
     updateStage |-> <<>>,           \* entries of state.getStage('update')
     renderStage |-> <<>>,           \* entries of state.getStage('render')
     elapsedTime |-> 0,              \* state.clock.elapsedTime
     oldTime     |-> 0]              \* state.clock.oldTime

RootSet == {roots[k] : k \in 1..Len(roots)}

\* Counters stay inside the explored windows.
InWindow(f) == f >= 0 - MaxNeg /\ (f <= LowFrames \/ f >= MaxFrames - LowFrames)
Bounded == \A r \in RootIds : InWindow(rs[r].frames)

\* Stage.add(ref, store): appends one entry to the stage
StageAdd(stage, entry) == Append(stage, entry)

\* frameCallback.current (loop.ts:87-92): every subscriber of the root, in order
FrameCallback(r, s) ==
    [k \in 1..Len(s.subscribers) |-> Call("sub", s.subscribers[k], r)]

\* renderCallback.current (loop.ts:100-102)
RenderCallback(r, s) ==
    IF s.render = "auto" THEN <<Call("render", "gl", r)>> ELSE <<>>

RECURSIVE StageFrame(_, _, _, _)
\* Stage.frame(delta, frame): runs the entries of one stage in order, from entry k on
StageFrame(stage, k, r, s) ==
    IF k > Len(stage) THEN <<>>
    ELSE (IF stage[k] = "frameCallback" THEN FrameCallback(r, s)
          ELSE RenderCallback(r, s))
         \o StageFrame(stage, k + 1, r, s)

\* Mutant of Update: the counter is not decremented
UpdateNoDecrement(timestamp, r, s) ==
    LET s1 == IF s.frameloop = "never"
              THEN [s EXCEPT !.oldTime = s.elapsedTime, !.elapsedTime = timestamp]
              ELSE s
        log == StageFrame(s1.updateStage, 1, r, s1) \o StageFrame(s1.renderStage, 1, r, s1)
    IN  [s     |-> s1,
         ret   |-> IF s1.frameloop = "always" THEN 1 ELSE s1.frames,
         calls |-> <<Call("update", "pipeline", r)>> \o log]

\* Mutant of Update: the counter is returned in every frameloop mode
UpdateReturnsFrames(timestamp, r, s) ==
    LET s1 == IF s.frameloop = "never"
              THEN [s EXCEPT !.oldTime = s.elapsedTime, !.elapsedTime = timestamp]
              ELSE s
        log == StageFrame(s1.updateStage, 1, r, s1) \o StageFrame(s1.renderStage, 1, r, s1)
        s2 == [s1 EXCEPT !.frames = Max(0, s1.frames - 1)]
    IN  [s     |-> s2,
         ret   |-> s2.frames,
         calls |-> <<Call("update", "pipeline", r)>> \o log]

\* update(timestamp, state): loop.ts:42-60.  The delta handed to the stages is not
\* recorded; the clock fields are written only in frameloop 'never'.
Update(timestamp, r, s) ==
    LET s1 == IF s.frameloop = "never"
              THEN [s EXCEPT !.oldTime = s.elapsedTime, !.elapsedTime = timestamp]
              ELSE s
        \* for (const stage of state.internal.stages) stage.frame(delta, frame)
        log == StageFrame(s1.updateStage, 1, r, s1)
               \o StageFrame(s1.renderStage, 1, r, s1)
        s2 == [s1 EXCEPT !.frames = Max(0, s1.frames - 1)]
    IN  [s     |-> s2,
         ret   |-> IF s2.frameloop = "always" THEN 1 ELSE s2.frames,
         calls |-> <<Call("update", "pipeline", r)>> \o log]

-----------------------------------------------------------------------------
(* Host tick primitive: requestAnimationFrame / cancelAnimationFrame *)

\* The handle of a new request: one that names no outstanding request.  (The host
\* numbers requests upwards for ever; loop reads its handle only in the call that got it.)
NewHandle(outstanding) ==
    CHOOSE k \in 1..(Cardinality(outstanding) + 1) :
        k \notin outstanding /\ \A j \in 1..(k - 1) : j \in outstanding

-----------------------------------------------------------------------------
(* createLoop: loop.ts:62-169 *)

\* loop.ts:83-106: on the first root visited while init is set, add the two standing entries
InstallStages(initFlag, s) ==
    IF initFlag
    THEN [s EXCEPT !.updateStage = StageAdd(@, "frameCallback"),
                   !.renderStage = StageAdd(@, "renderCallback")]
    ELSE s

\* The due condition with the counter consulted in frameloop 'demand' only
DueDemandOnly(s) ==
    /\ s.active
    /\ ~(s.frameloop = "demand" /\ s.frames = 0)
    /\ ~s.presenting

\* loop.ts:109-113
Due(s) ==
    /\ s.active
    /\ (s.frameloop = "always" \/ s.frames > 0)
    /\ ~s.presenting

\* The body of roots.forEach in loop (loop.ts:78-116) for one root
LoopRoot(acc, r, timestamp) ==
    LET s1 == InstallStages(acc.init, acc.rs[r])
        u  == Update(timestamp, r, s1)
    IN  IF Due(s1)
        THEN [rs     |-> [acc.rs EXCEPT ![r] = u.s],
              init   |-> FALSE,
              repeat |-> acc.repeat + u.ret,
              calls  |-> acc.calls \o u.calls]
        ELSE [rs     |-> [acc.rs EXCEPT ![r] = s1],
              init   |-> FALSE,
              repeat |-> acc.repeat,
              calls  |-> acc.calls]

RECURSIVE LoopRoots(_, _, _)
\* roots.forEach in loop, from the k-th root on.  (The set constructor makes TLC
\* compute the state after each root once.)
LoopRoots(acc, k, timestamp) ==
    IF k > Len(roots) THEN acc
    ELSE CHOOSE out \in {LoopRoots(next, k + 1, timestamp) :
                             next \in {LoopRoot(a, roots[k], timestamp) : a \in {acc}}} : TRUE

\* loop(timestamp) (loop.ts:69-130), called by the host for the request h
Loop(h, timestamp) ==
    /\ h \in raf
    /\ LET fired  == raf \ {h}
           frame  == NewHandle(fired)             \* frame = requestAnimationFrame(loop)
           before == IF Len(globalEffects) > 0 THEN Run(globalEffects, timestamp) ELSE <<>>
           acc    == LoopRoots([rs |-> rs, init |-> init, repeat |-> 0, calls |-> before],
                               1, timestamp)
           after  == IF Len(globalAfterEffects) > 0
                     THEN Run(globalAfterEffects, timestamp) ELSE <<>>
           tail   == IF Len(globalTailEffects) > 0
                     THEN Run(globalTailEffects, timestamp) ELSE <<>>
       IN  /\ rs' = acc.rs
           /\ init' = acc.init
           /\ IF acc.repeat = 0
              THEN /\ calls' = acc.calls \o after \o tail
                   /\ running' = FALSE
                   /\ raf' = (fired \cup {frame}) \ {frame}   \* cancelAnimationFrame(frame)
              ELSE /\ calls' = acc.calls \o after
                   /\ running' = TRUE
                   /\ raf' = fired \cup {frame}
           /\ op' = Op("loop", NoRoot, 0, FALSE, acc.repeat, NoHandle)
    /\ UNCHANGED roots
    /\ UNCHANGED effectVars

\* function invalidate(state, frames = 1)
DefaultFrames == 1

\* Mutant of InvalidateState: frameloop 'never' is not checked
InvalidateStateIgnoresNever(d, r, frames) ==
    LET s == d.rs[r]
    IN  IF s.presenting \/ ~s.active
        THEN d
        ELSE [rs      |-> [d.rs EXCEPT ![r].frames = Min(MaxFrames, s.frames + frames)],
              running |-> TRUE,
              raf     |-> IF d.running THEN d.raf ELSE d.raf \cup {NewHandle(d.raf)}]

\* Mutant of InvalidateState: the driver is flagged running but no tick is requested
InvalidateStateNoRequest(d, r, frames) ==
    LET s == d.rs[r]
    IN  IF s.presenting \/ ~s.active \/ s.frameloop = "never"
        THEN d
        ELSE [rs      |-> [d.rs EXCEPT ![r].frames = Min(MaxFrames, s.frames + frames)],
              running |-> TRUE,
              raf     |-> d.raf]

\* invalidate that requests a tick whether or not the driver is Running
InvalidateStateAlwaysRequests(d, r, frames) ==
    LET s == d.rs[r]
    IN  IF s.presenting \/ ~s.active \/ s.frameloop = "never" THEN d
        ELSE [rs      |-> [d.rs EXCEPT ![r].frames = Min(MaxFrames, s.frames + frames)],
              running |-> TRUE,
              raf     |-> d.raf \cup {NewHandle(d.raf)}]

\* invalidate(state, frames) for a given root state: loop.ts:134-141
InvalidateState(d, r, frames) ==
    LET s == d.rs[r]
    IN  IF s.presenting \/ ~s.active \/ s.frameloop = "never"
        THEN d
        ELSE [rs      |-> [d.rs EXCEPT ![r].frames = Min(MaxFrames, s.frames + frames)],
              running |-> TRUE,
              raf     |-> IF d.running THEN d.raf ELSE d.raf \cup {NewHandle(d.raf)}]

RECURSIVE InvalidateRoots(_, _, _)
\* loop.ts:133: roots.forEach((root) => invalidate(root.store.getState()), frames)
\* frames is the second argument of forEach, so the inner call takes the default
InvalidateRoots(d, k, frames) ==
    IF k > Len(roots) THEN d
    ELSE InvalidateRoots(InvalidateState(d, roots[k], DefaultFrames), k + 1, frames)

\* invalidate(state?, frames): loop.ts:132-142; r = NoRoot is the call without a state
Invalidate(r, frames) ==
    /\ r \in RootSet \cup {NoRoot}
    /\ LET d0 == [rs |-> rs, running |-> running, raf |-> raf]
           d  == IF r = NoRoot THEN InvalidateRoots(d0, 1, frames)
                 ELSE InvalidateState(d0, r, frames)
       IN  /\ rs' = d.rs
           /\ running' = d.running
           /\ raf' = d.raf
    /\ op' = Op("invalidate", r, frames, FALSE, 0, NoHandle)
    /\ calls' = <<>>
    /\ UNCHANGED <<roots, init>>
    /\ UNCHANGED effectVars

RECURSIVE AdvanceRoots(_, _, _)
\* loop.ts:151: roots.forEach((root) => update(timestamp, root.store.getState()))
AdvanceRoots(acc, k, timestamp) ==
    IF k > Len(roots) THEN acc
    ELSE LET u == Update(timestamp, roots[k], acc.rs[roots[k]])
         IN  AdvanceRoots([rs    |-> [acc.rs EXCEPT ![roots[k]] = u.s],
                           calls |-> acc.calls \o u.calls],
                          k + 1, timestamp)

\* advance that wakes the driver as invalidate does
AdvanceWakes(timestamp, runGlobalEffects, r) ==
    /\ r \in RootSet \cup {NoRoot}
    /\ LET before == IF runGlobalEffects THEN Run(globalEffects, timestamp) ELSE <<>>
           acc    == IF r = NoRoot
                     THEN AdvanceRoots([rs |-> rs, calls |-> before], 1, timestamp)
                     ELSE LET u == Update(timestamp, r, rs[r])
                          IN  [rs    |-> [rs EXCEPT ![r] = u.s],
                               calls |-> before \o u.calls]
           after  == IF runGlobalEffects THEN Run(globalAfterEffects, timestamp) ELSE <<>>
       IN  /\ rs' = acc.rs
           /\ calls' = acc.calls \o after
    /\ op' = Op("advance", r, 0, runGlobalEffects, 0, NoHandle)
    /\ running' = TRUE
    /\ raf' = IF running THEN raf ELSE raf \cup {NewHandle(raf)}
    /\ UNCHANGED <<roots, init>>
    /\ UNCHANGED effectVars

\* advance that leaves every pending-frame counter as it found it
AdvanceKeepsFrames(timestamp, runGlobalEffects, r) ==
    /\ r \in RootSet \cup {NoRoot}
    /\ LET before == IF runGlobalEffects THEN Run(globalEffects, timestamp) ELSE <<>>
           acc    == IF r = NoRoot
                     THEN AdvanceRoots([rs |-> rs, calls |-> before], 1, timestamp)
                     ELSE LET u == Update(timestamp, r, rs[r])
                          IN  [rs    |-> [rs EXCEPT ![r] = u.s],
                               calls |-> before \o u.calls]
           after  == IF runGlobalEffects THEN Run(globalAfterEffects, timestamp) ELSE <<>>
       IN  /\ rs' = [q \in RootIds |-> [acc.rs[q] EXCEPT !.frames = rs[q].frames]]
           /\ calls' = acc.calls \o after
    /\ op' = Op("advance", r, 0, runGlobalEffects, 0, NoHandle)
    /\ UNCHANGED <<roots, init, running, raf>>
    /\ UNCHANGED effectVars

\* advance(timestamp, runGlobalEffects, state?): loop.ts:144-154
Advance(timestamp, runGlobalEffects, r) ==
    /\ r \in RootSet \cup {NoRoot}
    /\ LET before == IF runGlobalEffects THEN Run(globalEffects, timestamp) ELSE <<>>
           acc0   == [rs |-> rs, calls |-> before]
           acc    == IF r = NoRoot THEN AdvanceRoots(acc0, 1, timestamp)
                     ELSE LET u == Update(timestamp, r, rs[r])
                          IN  [rs    |-> [rs EXCEPT ![r] = u.s],
                               calls |-> before \o u.calls]
           after  == IF runGlobalEffects THEN Run(globalAfterEffects, timestamp) ELSE <<>>
       IN  /\ rs' = acc.rs
           /\ calls' = acc.calls \o after
    /\ op' = Op("advance", r, 0, runGlobalEffects, 0, NoHandle)
    /\ UNCHANGED <<roots, init, running, raf>>
    /\ UNCHANGED effectVars

-----------------------------------------------------------------------------
(* Callbacks that call back into loop.ts *)

\* What the client wrote into a callback: nothing that touches loop.ts, a call of the
\* unregister closure of the effect `target` (when it has one), a throw,
\* invalidate(state of root `target`), or advance(timestamp, false, state of root `target`)
Plain == [kind |-> "plain", target |-> "none"]
Throws == [kind |-> "throw", target |-> "none"]
Unsubs(c) == [kind |-> "unsub", target |-> c]
Invalidates(r) == [kind |-> "invalidate", target |-> r]
Advances(r) == [kind |-> "advance", target |-> r]

\* Callback invocations after which a call is taken not to return (an iteration that
\* keeps being reset, a recursion that exhausts the stack)
MaxCalls == 10

\* The heap and the module variables while one exported function runs: i is loop.ts:13,
\* subsOf the root whose list `subscribers` (loop.ts:40) refers to
Machine(log) ==
    [rs |-> rs, init |-> init, running |-> running, raf |-> raf,
     effects |-> [p \in Phases |-> EffectList(p)], used |-> used,
     i |-> 0, subsOf |-> NoRoot, repeat |-> 0, ret |-> 0,
     calls |-> log, status |-> "ok", fuel |-> MaxCalls]

\* One more callback invoked
Invoke(m, c) == [m EXCEPT !.calls = Append(@, c), !.fuel = @ - 1]

Diverge(m) ==
    [m EXCEPT !.status = "diverged", !.calls = Append(@, Call("diverged", "stack", NoRoot))]

\* The closure returned by createSubs, called by a callback: subs.splice(index, 1)
UnsubCb(m, h) ==
    [m EXCEPT !.effects[h.phase] = Splice(@, h.index), !.used = @ \cup {h}]

\* invalidate(state), called by a callback (loop.ts:132-142)
InvalidateCb(m, r) ==
    LET d == InvalidateState([rs |-> m.rs, running |-> m.running, raf |-> m.raf],
                             r, DefaultFrames)
    IN  [m EXCEPT !.rs = d.rs, !.running = d.running, !.raf = d.raf]

\* renderCallback.current (loop.ts:99-103)
RenderCallbackCb(m, r) == [m EXCEPT !.calls = @ \o RenderCallback(r, m.rs[r])]

\* F applied to the value of e (e is computed once, then F is applied to the result)
Then(e, F(_)) == CHOOSE out \in {F(x) : x \in {e}} : TRUE

\* i++ unless the callback threw or did not return
NextIndex(m) == IF m.status # "ok" THEN m ELSE [m EXCEPT !.i = @ + 1]

RECURSIVE CallBody(_, _, _), RunFrom(_, _, _), FrameFrom(_, _),
          StageEntries(_, _, _, _, _), UpdateCb(_, _, _), AdvanceRootsCb(_, _, _)

\* loop.ts:37, from the current i on: for (...; i < effects.length; i++) effects[i](timestamp)
RunFrom(m, phase, timestamp) ==
    IF m.status # "ok" \/ m.i >= Len(m.effects[phase]) THEN m
    ELSE IF m.fuel = 0 THEN Diverge(m)
    ELSE LET c == m.effects[phase][m.i + 1]
         IN  Then(CallBody(Invoke(m, Call("effect", c, NoRoot)), c, timestamp),
                  LAMBDA m1 : RunFrom(NextIndex(m1), phase, timestamp))

\* run(effects, timestamp) (loop.ts:36-38)
RunCb(m, phase, timestamp) == RunFrom([m EXCEPT !.i = 0], phase, timestamp)

\* loop.ts:89-92, from the current i on
FrameFrom(m, timestamp) ==
    IF m.status # "ok" \/ m.i >= Len(m.rs[m.subsOf].subscribers) THEN m
    ELSE IF m.fuel = 0 THEN Diverge(m)
    ELSE LET subscription == m.rs[m.subsOf].subscribers[m.i + 1]
         IN  Then(CallBody(Invoke(m, Call("sub", subscription, m.subsOf)),
                           m.subsOf, timestamp),
                  LAMBDA m1 : FrameFrom(NextIndex(m1), timestamp))

\* frameCallback.current (loop.ts:86-94)
FrameCallbackCb(m, r, timestamp) == FrameFrom([m EXCEPT !.subsOf = r, !.i = 0], timestamp)

\* loop.ts:54-56: the entries of the root's stages, from the k-th on
StageEntries(m, r, timestamp, entries, k) ==
    IF m.status # "ok" \/ k > Len(entries) THEN m
    ELSE Then(IF entries[k] = "frameCallback"
              THEN FrameCallbackCb(m, r, timestamp)
              ELSE RenderCallbackCb(m, r),
              LAMBDA m1 : StageEntries(m1, r, timestamp, entries, k + 1))

\* loop.ts:58-59, once the stages returned; the return value of update is left in ret
Decrement(m, r) ==
    LET f == Max(0, m.rs[r].frames - 1)
    IN  IF m.status # "ok" THEN m
        ELSE [m EXCEPT !.rs[r].frames = f,
                       !.ret = IF m.rs[r].frameloop = "always" THEN 1 ELSE f]

\* update(timestamp, state) (loop.ts:42-60)
UpdateCb(m, r, timestamp) ==
    LET s  == m.rs[r]
        s1 == IF s.frameloop = "never"
              THEN [s EXCEPT !.oldTime = s.elapsedTime, !.elapsedTime = timestamp]
              ELSE s
        m1 == [m EXCEPT !.rs[r] = s1, !.calls = Append(@, Call("update", "pipeline", r))]
    IN  Then(StageEntries(m1, r, timestamp, s1.updateStage \o s1.renderStage, 1),
             LAMBDA m2 : Decrement(m2, r))

\* loop.ts:151: roots.forEach((root) => update(timestamp, root.store.getState()))
AdvanceRootsCb(m, k, timestamp) ==
    IF m.status # "ok" \/ k > Len(roots) THEN m
    ELSE Then(UpdateCb(m, roots[k], timestamp),
              LAMBDA m1 : AdvanceRootsCb(m1, k + 1, timestamp))

\* loop.ts:151-152
AdvanceUpdate(m, timestamp, r) ==
    IF m.status # "ok" THEN m
    ELSE IF r = NoRoot THEN AdvanceRootsCb(m, 1, timestamp)
    ELSE UpdateCb(m, r, timestamp)

\* loop.ts:153
AdvanceAfter(m, timestamp, runGlobalEffects) ==
    IF runGlobalEffects /\ m.status = "ok" THEN RunCb(m, "after", timestamp) ELSE m

\* advance(timestamp, runGlobalEffects, state?) (loop.ts:144-154)
AdvanceCb(m, timestamp, runGlobalEffects, r) ==
    Then(IF runGlobalEffects THEN RunCb(m, "before", timestamp) ELSE m,
         LAMBDA m1 : Then(AdvanceUpdate(m1, timestamp, r),
                          LAMBDA m2 : AdvanceAfter(m2, timestamp, runGlobalEffects)))

\* The callback `key` is invoked: what its body does
CallBody(m, key, timestamp) ==
    LET b == body[key]
    IN  CASE b.kind = "plain" -> m
          [] b.kind = "throw" ->
                [m EXCEPT !.status = "threw",
                          !.calls = Append(@, Call("throw", key, NoRoot))]
          [] b.kind = "unsub" ->
                LET hs == {h \in handles : h.cb = b.target}
                IN  IF hs = {} THEN m ELSE UnsubCb(m, CHOOSE h \in hs : TRUE)
          [] b.kind = "invalidate" -> InvalidateCb(m, b.target)
          [] b.kind = "advance" -> AdvanceCb(m, timestamp, FALSE, b.target)

\* loop.ts:114: repeat += update(timestamp, state)
AddRepeat(u, repeat) == IF u.status # "ok" THEN u ELSE [u EXCEPT !.repeat = repeat + u.ret]

\* The body of roots.forEach in loop (loop.ts:78-116) for one root
LoopRootCb(m, r, timestamp) ==
    LET m1 == [m EXCEPT !.rs[r] = InstallStages(m.init, @), !.init = FALSE]
    IN  IF ~Due(m1.rs[r]) THEN m1
        ELSE Then(UpdateCb(m1, r, timestamp), LAMBDA u : AddRepeat(u, m.repeat))

RECURSIVE LoopRootsCb(_, _, _)
\* roots.forEach in loop, from the k-th root on
LoopRootsCb(m, k, timestamp) ==
    IF m.status # "ok" \/ k > Len(roots) THEN m
    ELSE Then(LoopRootCb(m, roots[k], timestamp),
              LAMBDA m1 : LoopRootsCb(m1, k + 1, timestamp))

\* loop.ts:75 / 119 / 124: if (effects.length) run(effects, timestamp)
RunIfAny(m, phase, timestamp) ==
    IF m.status = "ok" /\ Len(m.effects[phase]) > 0 THEN RunCb(m, phase, timestamp) ELSE m

\* loop.ts:75-119: pre-effects, roots, post-effects
LoopWork(m, timestamp) ==
    Then(RunIfAny(m, "before", timestamp),
         LAMBDA m1 : Then(LoopRootsCb(m1, 1, timestamp),
                          LAMBDA m2 : RunIfAny(m2, "after", timestamp)))

\* loop.ts:122-129 with no request to cancel
StopUnrequested(m, frame, timestamp) ==
    IF m.status # "ok" THEN m
    ELSE IF m.repeat # 0 THEN [m EXCEPT !.running = TRUE, !.raf = @ \cup {frame}]
    ELSE Then(RunIfAny(m, "tail", timestamp),
              LAMBDA m1 : IF m1.status # "ok" THEN m1 ELSE [m1 EXCEPT !.running = FALSE])

\* loop with the host tick requested only once the tick's work is done
LoopCbRequestsLast(m, frame, timestamp) ==
    Then(LoopWork([m EXCEPT !.repeat = 0], timestamp),
         LAMBDA m3 : StopUnrequested(m3, frame, timestamp))

\* loop.ts:122-129: stop the loop if nothing invalidates it
Stop(m, frame, timestamp) ==
    IF m.status # "ok" \/ m.repeat # 0 THEN m
    ELSE Then(RunIfAny(m, "tail", timestamp),
              LAMBDA m1 : IF m1.status # "ok" THEN m1
                          ELSE [m1 EXCEPT !.running = FALSE,
                                          !.raf = @ \ {frame}])  \* cancelAnimationFrame(frame)

\* loop(timestamp) (loop.ts:69-130); frame is the handle requestAnimationFrame returns
LoopCb(m, frame, timestamp) ==
    Then(LoopWork([m EXCEPT !.raf = @ \cup {frame}, !.running = TRUE, !.repeat = 0],
                  timestamp),
         LAMBDA m3 : Stop(m3, frame, timestamp))

\* The heap and the module variables as the exported function leaves them
Commit(m) ==
    /\ rs' = m.rs
    /\ init' = m.init
    /\ running' = m.running
    /\ raf' = m.raf
    /\ globalEffects' = m.effects["before"]
    /\ globalAfterEffects' = m.effects["after"]
    /\ globalTailEffects' = m.effects["tail"]
    /\ used' = m.used
    /\ calls' = m.calls

\* loop(timestamp), called by the host for the request h
LoopStep(h, timestamp) ==
    /\ h \in raf
    /\ \E m \in {LoopCb([Machine(<<>>) EXCEPT !.raf = raf \ {h}],
                        NewHandle(raf \ {h}), timestamp)} :
          /\ Commit(m)
          /\ op' = Op("loop", NoRoot, 0, FALSE, m.repeat, NoHandle)
    /\ UNCHANGED <<roots, handles>>

\* advance(timestamp, runGlobalEffects, state?), called by the client
AdvanceStep(timestamp, runGlobalEffects, r) ==
    /\ r \in RootSet \cup {NoRoot}
    /\ \E m \in {AdvanceCb(Machine(<<>>), timestamp, runGlobalEffects, r)} : Commit(m)
    /\ op' = Op("advance", r, 0, runGlobalEffects, 0, NoHandle)
    /\ UNCHANGED <<roots, handles>>

-----------------------------------------------------------------------------
(* The owner of the Root Set (renderer): roots are created outside loop.ts *)

\* The canvases are opaque keys: the first root created is "a", the second "b".
NextRootId == IF roots = <<>> THEN "a" ELSE "b"

\* roots.set(canvas, root) with a freshly created store.  A root rendering 'auto' has
\* one useFrame subscriber U, a root rendering 'manual' has none.
AddRoot(r, c) ==
    /\ r \in RootIds \ RootSet
    /\ r = NextRootId
    /\ roots' = Append(roots, r)
    /\ rs' = [rs EXCEPT ![r] = NewRootState(c.frameloop, c.active, c.presenting, c.render,
                                           IF c.render = "auto" THEN <<"U">> ELSE <<>>)]
    /\ op' = Op("addRoot", r, 0, FALSE, 0, NoHandle)
    /\ calls' = <<>>
    /\ UNCHANGED <<init, running, raf>>
    /\ UNCHANGED effectVars

-----------------------------------------------------------------------------
(* Specifications *)

NoOp == Op("none", NoRoot, 0, FALSE, 0, NoHandle)
\* Callbacks that call nothing back
PlainBodies == [c \in Callbacks \cup RootIds |-> Plain]
NoTally == [k0 |-> 0, processed |-> 0, tails |-> 0]
BlankRoots == [r \in RootIds |-> NewRootState("demand", FALSE, FALSE, "auto", <<>>)]

\* Module load followed by createLoop(roots) with an empty Root Set
Init ==
    /\ roots = <<>>
    /\ rs = BlankRoots
    /\ init = TRUE
    /\ running = FALSE
    /\ raf = {}
    /\ globalEffects = <<>>
    /\ globalAfterEffects = <<>>
    /\ globalTailEffects = <<>>
    /\ handles = {}
    /\ used = {}
    /\ calls = <<>>
    /\ op = NoOp
    /\ tally = NoTally
    /\ body = PlainBodies

\* The registry after addEffect(P), addAfterEffect(Q), addTail(T)
RegisteredPQT ==
    /\ globalEffects = <<"P">>
    /\ globalAfterEffects = <<"Q">>
    /\ globalTailEffects = <<"T">>
    /\ handles = {[phase |-> "before", index |-> 0, cb |-> "P"],
                  [phase |-> "after", index |-> 0, cb |-> "Q"],
                  [phase |-> "tail", index |-> 0, cb |-> "T"]}
    /\ used = {}

\* createLoop(roots) with an empty Root Set, P, Q and T registered
InitDriver ==
    /\ roots = <<>>
    /\ rs = BlankRoots
    /\ init = TRUE
    /\ running = FALSE
    /\ raf = {}
    /\ RegisteredPQT
    /\ calls = <<>>
    /\ op = NoOp
    /\ tally = NoTally
    /\ body = PlainBodies

NextDriver ==
    \/ \E r \in RootIds, c \in RootConfigs : AddRoot(r, c) /\ UNCHANGED <<tally, body>>
    \/ \E r \in RootIds \cup {NoRoot}, n \in FrameCounts :
          Invalidate(r, n) /\ Bounded' /\ UNCHANGED <<tally, body>>
    \/ \E h \in raf, t \in Timestamps : Loop(h, t) /\ Bounded' /\ UNCHANGED <<tally, body>>
    \/ \E t \in Timestamps, g \in BOOLEAN, r \in RootIds \cup {NoRoot} :
          Advance(t, g, r) /\ Bounded' /\ UNCHANGED <<tally, body>>

\* The frame driver and its clients
Spec == InitDriver /\ [][NextDriver]_vars

NextEffects ==
    \/ \E c \in Callbacks : AddEffect(c) /\ UNCHANGED <<tally, body>>
    \/ \E c \in Callbacks : AddAfterEffect(c) /\ UNCHANGED <<tally, body>>
    \/ \E c \in Callbacks : AddTail(c) /\ UNCHANGED <<tally, body>>
    \/ \E h \in handles : Unsub(h) /\ UNCHANGED <<tally, body>>

\* The effect registry and its clients
SpecEffects == Init /\ [][NextEffects]_vars

Range(f) == {f[k] : k \in DOMAIN f}
Count(f, x) == Cardinality({k \in DOMAIN f : f[k] = x})

\* A Running driver, root "a" in frameloop 'demand' with any counter 0..60, alone or
\* beside an inactive or an 'always' root "b", before or after the driver's first tick.
InitDemand ==
    /\ \E k \in 0..MaxFrames, ticked \in BOOLEAN,
          cb \in {c \in RootConfigs : c.render = "auto" /\ ~c.presenting
                                       /\ c.frameloop # "never"
                                       /\ (c.active => c.frameloop = "always")} :
          LET a0 == NewRootState("demand", TRUE, FALSE, "auto", <<"U">>)
              a1 == [InstallStages(ticked, a0) EXCEPT !.frames = k]
              b0 == NewRootState(cb.frameloop, cb.active, cb.presenting, cb.render, <<"U">>)
          IN  /\ rs = [r \in RootIds |-> IF r = "a" THEN a1 ELSE b0]
              /\ init = ~ticked
              /\ tally = [k0 |-> k, processed |-> 0, tails |-> 0]
    /\ roots \in {<<"a">>, <<"a", "b">>}
    /\ running = TRUE
    /\ raf = {1}
    /\ RegisteredPQT
    /\ calls = <<>>
    /\ op = NoOp
    /\ body = PlainBodies

\* A host tick, counted
CountedLoop(h, t) ==
    /\ Loop(h, t)
    /\ tally' = [tally EXCEPT
                   !.processed = @ + Count(calls', Call("update", "pipeline", "a")),
                   !.tails = @ + Count(calls', Call("effect", "T", NoRoot))]

NextDemand == \E h \in raf, t \in Timestamps : CountedLoop(h, t) /\ UNCHANGED body

\* Ticks only (no further invalidate); the host fires every tick it was asked for
SpecDemand == InitDemand /\ [][NextDemand]_vars /\ WF_vars(NextDemand)

\* A root as the store can hold it between two operations: any configuration, with any
\* counter of the window whatever its mode (the store switches the mode of a root whose
\* counter an earlier invalidate raised)
RootStates ==
    {[NewRootState(c.frameloop, c.active, c.presenting, c.render,
                   IF c.render = "auto" THEN <<"U">> ELSE <<>>) EXCEPT !.frames = f] :
        c \in RootConfigs, f \in {g \in (0 - MaxNeg)..MaxFrames : InWindow(g)}}

\* A Running driver over roots "a" and "b" in any such state, before or after its first tick
InitSkip ==
    /\ roots = <<"a", "b">>
    /\ \E ticked \in BOOLEAN, sa \in RootStates, sb \in RootStates :
          /\ rs = [r \in RootIds |-> IF r = "a" THEN InstallStages(ticked, sa) ELSE sb]
          /\ init = ~ticked
    /\ running = TRUE
    /\ raf = {1}
    /\ RegisteredPQT
    /\ calls = <<>>
    /\ op = NoOp
    /\ tally = NoTally
    /\ body = PlainBodies

NextSkip == \E h \in raf, t \in Timestamps : Loop(h, t) /\ Bounded' /\ UNCHANGED <<tally, body>>

\* Ticks over roots in every mode with every counter
SpecSkip == InitSkip /\ [][NextSkip]_vars

\* The last operation did not return
Diverged == \E k \in DOMAIN calls : calls[k].kind = "diverged"

\* Client code in which at most one callback calls back: it throws, or calls invalidate
\* or advance(t, false, .) for a root.  (A subscription that advances its own root
\* recurses without end whatever loop.ts does, and is left out.)
Bodies ==
    {PlainBodies}
    \cup UNION {{[PlainBodies EXCEPT ![k] = b] :
                    b \in {Throws} \cup {Invalidates(r) : r \in RootIds}
                                   \cup {Advances(r) : r \in RootIds \ {k}}} :
                k \in {"P", "X", "Q", "T"} \cup RootIds}

\* An Idle driver over two active roots that never ticked; P and X are pre-effects, Q a
\* post-effect, T a tail effect
InitCallbacks ==
    /\ roots = <<"a", "b">>
    /\ \E fa \in {"demand", "always"}, fb \in {"demand", "always"}, ra \in Renders :
          rs = [r \in RootIds |->
                  IF r = "a"
                  THEN NewRootState(fa, TRUE, FALSE, ra,
                                    IF ra = "auto" THEN <<"U">> ELSE <<>>)
                  ELSE NewRootState(fb, TRUE, FALSE, "auto", <<"U">>)]
    /\ init = TRUE
    /\ running = FALSE
    /\ raf = {}
    /\ globalEffects = <<"P", "X">>
    /\ globalAfterEffects = <<"Q">>
    /\ globalTailEffects = <<"T">>
    /\ handles = {[phase |-> "before", index |-> 0, cb |-> "P"],
                  [phase |-> "before", index |-> 1, cb |-> "X"],
                  [phase |-> "after", index |-> 0, cb |-> "Q"],
                  [phase |-> "tail", index |-> 0, cb |-> "T"]}
    /\ used = {}
    /\ calls = <<>>
    /\ op = NoOp
    /\ tally = NoTally
    /\ body \in Bodies

NextCallbacks ==
    \/ \E r \in RootIds \cup {NoRoot}, n \in 1..LowFrames :
          ~Diverged /\ Invalidate(r, n) /\ Bounded' /\ UNCHANGED <<tally, body>>
    \/ \E h \in raf, t \in Timestamps :
          ~Diverged /\ LoopStep(h, t) /\ Bounded' /\ UNCHANGED <<tally, body>>
    \/ \E t \in Timestamps, g \in BOOLEAN, r \in RootIds \cup {NoRoot} :
          ~Diverged /\ AdvanceStep(t, g, r) /\ Bounded' /\ UNCHANGED <<tally, body>>

\* The frame driver with callbacks that call back
SpecCallbacks == InitCallbacks /\ [][NextCallbacks]_vars

\* The effects the clients of SpecRun register, and client code in which each of them
\* calls nothing back or calls the unregister closure of one of them (its own included)
RunCallbacks == {"P", "Q", "T"}
RunBodies ==
    {b \in [Callbacks \cup RootIds -> {Plain} \cup {Unsubs(c) : c \in RunCallbacks}] :
        \A k \in (Callbacks \cup RootIds) \ RunCallbacks : b[k] = Plain}

\* A Running driver over one active 'always' root that ticked before; no effect registered
InitRun ==
    /\ roots = <<"a">>
    /\ rs = [BlankRoots EXCEPT
               !["a"] = InstallStages(TRUE, NewRootState("always", TRUE, FALSE, "auto", <<"U">>))]
    /\ init = FALSE
    /\ running = TRUE
    /\ raf = {1}
    /\ globalEffects = <<>>
    /\ globalAfterEffects = <<>>
    /\ globalTailEffects = <<>>
    /\ handles = {}
    /\ used = {}
    /\ calls = <<>>
    /\ op = NoOp
    /\ tally = NoTally
    /\ body \in RunBodies

NextRun ==
    \/ \E c \in RunCallbacks : AddEffect(c) /\ UNCHANGED <<tally, body>>
    \/ \E h \in handles : Unsub(h) /\ UNCHANGED <<tally, body>>
    \/ \E h \in raf, t \in Timestamps : LoopStep(h, t) /\ UNCHANGED <<tally, body>>

\* Pre-effects registered, unregistered by their clients and by each other, and run by ticks
SpecRun == InitRun /\ [][NextRun]_vars

-----------------------------------------------------------------------------
(* Properties *)

\* invalidate acts on a root that is active, not presenting and not in frameloop 'never'
Eligible(s) == s.active /\ ~s.presenting /\ s.frameloop # "never"

\* update() ran for root r in the last operation / in the operation of this step
Processed(r) == Call("update", "pipeline", r) \in Range(calls)
ProcessedNext(r) == Call("update", "pipeline", r) \in Range(calls')

Without(list, callback) == SelectSeq(list, LAMBDA x : x # callback)
Invoked(log) == SelectSeq(log, LAMBDA c : c.kind # "update")

\* C1: every root's pending-frame counter is in 0..60 in every reachable state, for
\* every sequence of invalidate calls with any integer frameCount.
C1_CounterInRange == \A r \in RootSet : rs[r].frames \in 0..MaxFrames

\* C2: invalidate without a root and with frameCount n >= 1 leaves every eligible root
\* with counter min(60, old counter + n).
C2_FanOutAppliesFrameCount ==
    [][(op'.name = "invalidate" /\ op'.root = NoRoot /\ op'.n >= 1)
        => \A r \in RootSet :
              Eligible(rs[r]) => rs'[r].frames = Min(MaxFrames, rs[r].frames + op'.n)]_vars

\* C3: the first invocation of the unregister handle of callback c removes the entry of c
\* from its list and nothing else, whatever was registered and removed before.
C3_UnsubRemovesOwnEntry ==
    [][(op'.name = "unsub" /\ op'.h \notin used)
        => /\ globalEffects' = IF op'.h.phase = "before"
                               THEN Without(globalEffects, op'.h.cb) ELSE globalEffects
           /\ globalAfterEffects' = IF op'.h.phase = "after"
                                    THEN Without(globalAfterEffects, op'.h.cb)
                                    ELSE globalAfterEffects
           /\ globalTailEffects' = IF op'.h.phase = "tail"
                                   THEN Without(globalTailEffects, op'.h.cb)
                                   ELSE globalTailEffects]_vars

\* C4: invoking an unregister handle that was invoked before leaves every effect list
\* as it was.
C4_UnsubIdempotent ==
    [][(op'.name = "unsub" /\ op'.h \in used)
        => UNCHANGED <<globalEffects, globalAfterEffects, globalTailEffects>>]_vars

\* Root r is the only active root of the Root Set
OnlyActive(r) == \A q \in RootSet : rs[q].active <=> q = r

\* C5 (SpecDemand: ticks only): with root "a" in frameloop 'demand' starting at counter
\* k0, the ticks that ran its pipeline so far and its counter add up to k0, so exactly k0
\* ticks run it; each tick tallies the frames "a" has left (0 once they are used up) plus 1
\* for an active 'always' root; while "a" is the only active root the driver is Running with no tail run
\* as long as frames remain (or no tick fired yet), and once Idle the counter is 0, no
\* host tick is outstanding, the last tick tallied repeat = 0 and the tail effects ran
\* exactly once.
C5_DemandInv ==
    /\ tally.processed + rs["a"].frames = tally.k0
    /\ op.name = "loop" =>
          op.repeat = rs["a"].frames + Cardinality({q \in RootSet : q # "a" /\ rs[q].active})
    /\ OnlyActive("a") =>
          /\ running => (tally.tails = 0 /\ raf # {}
                         /\ (rs["a"].frames > 0 \/ tally.processed = 0))
          /\ ~running => (rs["a"].frames = 0 /\ tally.processed = tally.k0
                          /\ tally.tails = 1 /\ raf = {} /\ op.repeat = 0)

C5_DemandBudget == []C5_DemandInv /\ (OnlyActive("a") => <>[](~running /\ tally.tails = 1))

C5_Witness ==
    /\ OnlyActive("a") /\ ~running
    /\ tally.k0 = MaxFrames /\ tally.processed = MaxFrames /\ tally.tails = 1

\* C6 as stated: while some root in frameloop 'always' is active, every tick ends with
\* repeat >= 1 and leaves the driver Running.
C6_AlwaysKeepsRunning ==
    [][(\E r \in RootSet : rs[r].frameloop = "always" /\ rs[r].active)
        => (op'.name = "loop" => (op'.repeat >= 1 /\ running'))]_vars

\* C6 amended: while some root in frameloop 'always' is active and not XR-presenting,
\* every tick ends with repeat >= 1 and leaves the driver Running, and no operation
\* makes a Running driver Idle.
C6_AlwaysEligibleKeepsRunning ==
    [][(\E r \in RootSet : rs[r].frameloop = "always" /\ rs[r].active /\ ~rs[r].presenting)
        => /\ op'.name = "loop" => (op'.repeat >= 1 /\ running' /\ raf' # {})
           /\ running => running']_vars

C6_Witness ==
    /\ op.name = "loop" /\ op.repeat = 1 /\ running
    /\ roots = <<"a", "b">>
    /\ rs["a"].frameloop = "demand" /\ rs["a"].active /\ rs["a"].frames = 0
    /\ rs["b"].frameloop = "always" /\ rs["b"].active /\ ~rs["b"].presenting
    /\ rs["b"].frames = 0 /\ Processed("b")

\* C7: invalidate(root, n) on a root in frameloop 'never', or inactive, or XR-presenting
\* changes no counter, nor the Running/Idle state, nor the requested host ticks.
C7_InvalidateNoOp ==
    [][(op'.name = "invalidate" /\ op'.root \in RootSet /\ ~Eligible(rs[op'.root]))
        => UNCHANGED <<rs, running, raf>>]_vars

C7_Witness ==
    /\ op.name = "invalidate" /\ op.root = "a" /\ op.n = 61
    /\ rs["a"].frameloop = "never" /\ rs["a"].active /\ ~rs["a"].presenting
    /\ rs["a"].frames = 0 /\ ~running /\ raf = {}

\* C8: invalidate(root, n), n >= 1, on an eligible 'demand' root while the driver is Idle
\* makes it Running with exactly one host tick requested; and every tick that processes
\* a 'demand' root lowers its counter by exactly 1.
C8_WakeAndDecrement ==
    [][\A r \in RootSet :
          /\ (op'.name = "invalidate" /\ op'.root = r /\ op'.n >= 1 /\ ~running
              /\ Eligible(rs[r]) /\ rs[r].frameloop = "demand")
                => (running' /\ Cardinality(raf') = 1
                    /\ rs'[r].frames = Min(MaxFrames, rs[r].frames + op'.n))
          /\ (op'.name = "loop" /\ rs[r].frameloop = "demand" /\ ProcessedNext(r))
                => rs'[r].frames = rs[r].frames - 1]_vars

C8_Witness ==
    /\ op.name = "loop" /\ Processed("a") /\ rs["a"].frameloop = "demand"
    /\ rs["a"].frames = 1 /\ running /\ Cardinality(raf) = 1

\* C9: a tick with exactly one active root, in frameloop 'demand' with counter 1, one
\* subscription U and render 'auto', and with P, Q, T registered, invokes P, U, the
\* render submission, Q, T in this order, each once.
C9_PhaseOrder ==
    [][(/\ op'.name = "loop"
        /\ globalEffects = <<"P">> /\ globalAfterEffects = <<"Q">>
        /\ globalTailEffects = <<"T">>)
        => \A r \in RootSet :
              (/\ OnlyActive(r) /\ rs[r].frameloop = "demand" /\ ~rs[r].presenting
               /\ rs[r].frames = 1 /\ rs[r].render = "auto" /\ rs[r].subscribers = <<"U">>)
                => Invoked(calls') = <<Call("effect", "P", NoRoot), Call("sub", "U", r),
                                       Call("render", "gl", r), Call("effect", "Q", NoRoot),
                                       Call("effect", "T", NoRoot)>>]_vars

\* C10: every root whose pipeline a tick runs holds exactly one advance-subscriptions
\* entry in its update stage and one submit-frame entry in its render stage, and no root
\* ever holds more than one of either.
C10_StagesInstalledOnce ==
    \A r \in RootSet :
        /\ Len(rs[r].updateStage) <= 1 /\ Len(rs[r].renderStage) <= 1
        /\ (op.name = "loop" /\ Processed(r))
              => (rs[r].updateStage = <<"frameCallback">>
                  /\ rs[r].renderStage = <<"renderCallback">>)

\* The tick of this step left root r alone: no pipeline run, counter as it was
SkippedNext(r) == ~ProcessedNext(r) /\ rs'[r].frames = rs[r].frames

\* What root r added to repeat in the tick of this step
RepeatOfNext(r) ==
    IF ~ProcessedNext(r) THEN 0
    ELSE IF rs[r].frameloop = "always" THEN 1 ELSE rs'[r].frames

\* C11 as stated: a tick skips a root exactly when the root is inactive, or in frameloop
\* 'demand' with counter 0, or XR-presenting; so an active, non-presenting root in
\* frameloop 'never' is processed whatever its counter (said of counters in 0..60).
C11_SkipIffDemandZero ==
    [][op'.name = "loop"
        => \A r \in RootSet :
              rs[r].frames \in 0..MaxFrames
                => (SkippedNext(r) <=> (\/ ~rs[r].active
                                        \/ (rs[r].frameloop = "demand" /\ rs[r].frames = 0)
                                        \/ rs[r].presenting))]_vars

\* C11 amended: a tick skips a root (no pipeline run, counter unchanged, 0 added to
\* repeat) exactly when the root is inactive, or not in frameloop 'always' with a counter
\* not above 0, or XR-presenting; an active, non-presenting root in frameloop 'never' is
\* processed exactly when its counter is above 0.
C11_SkipIffNotDue ==
    [][op'.name = "loop"
        => /\ \A r \in RootSet :
                 /\ SkippedNext(r) <=> (\/ ~rs[r].active
                                        \/ (rs[r].frameloop # "always" /\ rs[r].frames <= 0)
                                        \/ rs[r].presenting)
                 /\ ~ProcessedNext(r) => rs'[r].frames = rs[r].frames
           /\ op'.repeat = RepeatOfNext("a") + RepeatOfNext("b")]_vars

\* A tick skipped the active, non-presenting 'never' root "a" with counter 0 and
\* processed the 'never' root "b", whose counter was above 0
C11_Witness ==
    /\ op.name = "loop"
    /\ rs["a"].frameloop = "never" /\ rs["a"].active /\ ~rs["a"].presenting
    /\ rs["a"].frames = 0 /\ ~Processed("a")
    /\ rs["b"].frameloop = "never" /\ rs["b"].frames = 1 /\ Processed("b")

\* C12: advance, with or without a root and with or without the global effects, leaves
\* the running flag and the requested host ticks as they were, in a Running and in an
\* Idle driver.
C12_AdvanceLeavesDriver ==
    [][op'.name = "advance" => UNCHANGED <<running, raf, init>>]_vars

\* advance ran root "a" and the global effects in a Running driver with a tick outstanding
C12_Witness ==
    /\ op.name = "advance" /\ op.root = "a" /\ op.rge
    /\ Processed("a") /\ Call("effect", "P", NoRoot) \in Range(calls)
    /\ running /\ Cardinality(raf) = 1

\* C13: advance(t, true, root) invokes, in this order and each once, every pre-effect,
\* every subscription of that root, the render submission when render is 'auto', and
\* every post-effect, and nothing of another root; in every reachable state.
C13_AdvanceRunsRootPass ==
    [][(op'.name = "advance" /\ op'.rge /\ op'.root \in RootSet)
        => Invoked(calls') =
              Run(globalEffects, 0)
              \o FrameCallback(op'.root, rs[op'.root])
              \o RenderCallback(op'.root, rs[op'.root])
              \o Run(globalAfterEffects, 0)]_vars

\* invalidate reached root r in the operation of this step
InvalidatedNext(r) ==
    /\ op'.name = "invalidate" /\ op'.root \in {r, NoRoot}
    /\ Eligible(rs[r])

\* The frame count invalidate added in the operation of this step
AddedNext == IF op'.root = NoRoot THEN DefaultFrames ELSE op'.n

C19_OneTickOutstanding ==
    /\ Cardinality(raf) <= 1
    /\ running <=> Cardinality(raf) = 1

\* invalidate reached root "b" while root "a" held frames of an earlier invalidate
C19_Witness ==
    /\ op.name = "invalidate" /\ op.root = "b" /\ op.n = 2
    /\ Eligible(rs["a"]) /\ rs["a"].frameloop = "demand" /\ rs["a"].frames = 2
    /\ Eligible(rs["b"]) /\ rs["b"].frames = 2
    /\ running /\ Cardinality(raf) = 1

\* With callbacks that call nothing back, LoopStep and AdvanceStep are Loop and Advance
CallbackStepsAgree ==
    [][body = PlainBodies
        => /\ op'.name = "loop" => \E h \in raf, t \in Timestamps : Loop(h, t)
           /\ op'.name = "advance"
                 => \E t \in Timestamps : Advance(t, op'.rge, op'.root)]_vars

\* C18: whenever an active, non-presenting 'demand' root holds pending frames, the
\* driver is Running with a host tick requested, so no invalidation is lost, also when
\* invalidate is called by a callback inside a tick.
C18_NoInvalidationLost ==
    \A r \in RootSet :
        (Eligible(rs[r]) /\ rs[r].frameloop = "demand" /\ rs[r].frames > 0)
           => (running /\ raf # {})

\* A callback threw in the operation whose log is given / the place of the throw in it
HasThrow(log) == \E k \in DOMAIN log : log[k].kind = "throw"
ThrowAt(log) == CHOOSE k \in DOMAIN log : log[k].kind = "throw"
RootIndex(r) == CHOOSE k \in 1..Len(roots) : roots[k] = r

\* C17: when a pre-effect, a subscription or a post-effect throws during a tick, nothing
\* is invoked after it (no later root, no post-effect, no tail effect), the counter of
\* the throwing root and of every later root is as before the tick, and the driver is
\* left Running with exactly one host tick requested.
C17_ThrowAbandonsTick ==
    [][(op'.name = "loop" /\ HasThrow(calls'))
        => LET k   == ThrowAt(calls')
               who == calls'[k].who
           IN  /\ k = Len(calls') /\ k > 1
               /\ calls'[k - 1] = IF who \in RootIds
                                  THEN Call("sub", "U", who)
                                  ELSE Call("effect", who, NoRoot)
               /\ running' /\ Cardinality(raf') = 1
               /\ who \in RootIds
                     => \A q \in RootSet :
                           RootIndex(q) >= RootIndex(who)
                              => /\ rs'[q].frames = rs[q].frames
                                 /\ q # who => ~ProcessedNext(q)
               /\ who \in Range(globalEffects)
                     => \A q \in RootSet : ~ProcessedNext(q) /\ rs'[q].frames = rs[q].frames
               /\ who \in Range(globalAfterEffects)
                     => Call("effect", "T", NoRoot) \notin Range(calls')]_vars

\* The subscription of the 'demand' root "a" threw in a tick: "a" keeps its 2 frames,
\* root "b" was not reached, the driver is Running with one tick requested
C17_Witness ==
    /\ op.name = "loop" /\ HasThrow(calls) /\ calls[Len(calls)].who = "a"
    /\ rs["a"].frameloop = "demand" /\ rs["a"].frames = 2
    /\ rs["b"].frames = 2 /\ ~Processed("b")
    /\ running /\ Cardinality(raf) = 1

\* C20: while callbacks call advance(t, false, root), every operation returns, and a
\* tick in which nothing throws invokes every pre-effect exactly once, in list order.
C20_ReentrantIterationSafe ==
    [][(op'.name = "loop" /\ ~HasThrow(calls'))
        => /\ \A k \in DOMAIN calls' : calls'[k].kind # "diverged"
           /\ SelectSeq(calls', LAMBDA c : c.kind = "effect" /\ c.who \in Range(globalEffects))
                 = [k \in 1..Len(globalEffects) |-> Call("effect", globalEffects[k], NoRoot)]]_vars

\* The pre-effects a log invoked, in order
PreEffectsOf(log, list) ==
    SelectSeq(log, LAMBDA c : c.kind = "effect" /\ c.who \in Range(list))

\* C14: when a pre-effect running in a tick calls the unregister closure of another
\* pre-effect x, the tick returns normally, x is not invoked in the rest of the tick and
\* x is in the list no more, whatever was registered and unregistered before.
C14_UnsubDuringRun ==
    [][op'.name = "loop"
        => /\ \A k \in DOMAIN calls' : calls'[k].kind \notin {"throw", "diverged"}
           /\ \A k \in DOMAIN calls', x \in RunCallbacks :
                 (/\ calls'[k].kind = "effect"
                  /\ body[calls'[k].who] = Unsubs(x) /\ x # calls'[k].who
                  /\ \E h \in handles : h.cb = x)
                    => /\ \A j \in DOMAIN calls' : j > k => calls'[j].who # x
                       /\ x \notin Range(globalEffects')]_vars

\* C15: every run of the pre-effect list invokes each callback that is in the list when
\* the run ends exactly once, in list order, also when callbacks unregister themselves
\* or each other during the run.
C15_EachOnceInOrder ==
    [][op'.name = "loop"
        => PreEffectsOf(calls', globalEffects')
              = [k \in 1..Len(globalEffects') |-> Call("effect", globalEffects'[k], NoRoot)]]_vars

====
